---- MODULE Spec2Model ----
(***************************************************************************)
(* Model of nypm's src/api.ts: the five exported operations                *)
(* (installDependencies, addDependency, addDevDependency,                  *)
(* removeDependency, ensureDependencyInstalled), their argument synthesis  *)
(* and their interaction with the Options Resolver, the Dependency         *)
(* Existence Checker and the Command Executor of ./_utils.                 *)
(*                                                                         *)
(* JavaScript values are modelled as strings: "undefined" is an absent     *)
(* option, "true"/"false" are the booleans, anything else is a string.     *)
(* An async function is cut into steps at its awaits.                      *)
(***************************************************************************)
EXTENDS Integers, Sequences, FiniteSets, TLC

\* ------------------------------------------------------------------ bounds
MaxNames == 2
MaxMajor == 2

\* ------------------------------------------------------------- data model
PackageManagerName == {"npm", "yarn", "pnpm", "bun"}

MajorVersions == {ToString(v) : v \in 1..MaxMajor}

NoPackageManager ==
  [name |-> "undefined", command |-> "undefined", majorVersion |-> "undefined"]

\* What the Package Manager Detector can return for a directory.
DetectedPackageManagers ==
  [name : PackageManagerName, command : {"undefined"}, majorVersion : MajorVersions]

DetectablePackageManagers ==
  {[pm EXCEPT !.command = pm.name] : pm \in DetectedPackageManagers}

\* What a caller can pass as options.packageManager: a detected one, or one
\* whose launch command differs from its name.
PackageManagerOverrides ==
  DetectablePackageManagers \cup
  [name : PackageManagerName, command : {"corepack"}, majorVersion : {"1"}]

DepNames == {"foo", "bar", ""}
Workspaces == {"undefined", "app"}
Dirs == {"undefined", "/proj"}
ProcessCwd == "/cwd"
Tri == {"undefined", "true", "false"}
ExecutionErrors == {"ExecutionError(1)", "ExecutionError(127)"}

\* JavaScript truthiness of the modelled values.
Truthy(v) == v \notin {"undefined", "false", ""}

OperationOptions ==
  [cwd : Dirs, silent : {"undefined", "true"},
   packageManager : {NoPackageManager} \cup PackageManagerOverrides,
   dev : Tri, workspace : Workspaces, global : Tri,
   frozenLockFile : {"undefined"}]

InstallOptions ==
  [cwd : Dirs, silent : {"undefined", "true"},
   packageManager : {NoPackageManager} \cup PackageManagerOverrides,
   dev : {"undefined"}, workspace : {"undefined"}, global : {"undefined"},
   frozenLockFile : Tri]

EnsureOptions ==
  [cwd : Dirs, silent : {"undefined"},
   packageManager : {NoPackageManager},
   dev : Tri, workspace : Workspaces, global : {"undefined"},
   frozenLockFile : {"undefined"}]

NoOptions ==
  [cwd |-> "undefined", silent |-> "undefined",
   packageManager |-> NoPackageManager, dev |-> "undefined",
   workspace |-> "undefined", global |-> "undefined",
   frozenLockFile |-> "undefined"]

NoResolved ==
  [cwd |-> "undefined", silent |-> "undefined",
   packageManager |-> NoPackageManager, dev |-> "undefined",
   workspace |-> "undefined", global |-> "undefined"]

\* The `name` parameter: a single string or an array of strings.
StringName(s) == [isArray |-> FALSE, str |-> s, arr |-> <<>>]
ArrayName(a) == [isArray |-> TRUE, str |-> "undefined", arr |-> a]
NoName == StringName("undefined")

SeqsUpTo(S, n) == UNION {[1..k -> S] : k \in 0..n}

NameArgs ==
  {StringName(s) : s \in DepNames} \cup
  {ArrayName(a) : a \in SeqsUpTo(DepNames, MaxNames)}

\* ------------------------------------------------------ ./_utils (by spec)
\* Options Resolver: an explicit packageManager wins over detection, cwd
\* defaults to the process working directory, the rest is carried over.
\* `detected` is the Detector's answer, consulted only without an override.
needsDetection(o) == o.packageManager = NoPackageManager

resolveOperationOptions(o, detected) ==
  [cwd |-> IF Truthy(o.cwd) THEN o.cwd ELSE ProcessCwd,
   silent |-> o.silent,
   packageManager |->
     IF needsDetection(o) THEN detected ELSE o.packageManager,
   dev |-> o.dev,
   workspace |-> o.workspace,
   global |-> o.global]

\* Workspace-selector arguments of each manager.
getWorkspaceArgs(r) ==
  IF ~Truthy(r.workspace) THEN <<>>
  ELSE CASE r.packageManager.name = "npm" -> <<"-w", r.workspace>>
         [] r.packageManager.name = "pnpm" -> <<"-F", r.workspace>>
         [] r.packageManager.name = "yarn" -> <<"workspace", r.workspace>>
         [] OTHER -> <<>>

\* ------------------------------------------------- argument synthesis
\* Variant: the filter is missing.
filterBooleanMissing(s) == s

\* Array.prototype.filter(Boolean) on an array of strings.
filterBoolean(s) == SelectSeq(s, LAMBDA t : Truthy(t))

\* Variant: pnpm is given yarn's frozen-install flag.
pmToInstallCommandMapPnpmImmutable(n) ==
  CASE n = "npm" -> <<"ci">>
    [] n = "yarn" -> <<"install", "--immutable">>
    [] n = "bun" -> <<"install", "--frozen-lockfile">>
    [] n = "pnpm" -> <<"install", "--immutable">>

pmToInstallCommandMap(n) ==
  CASE n = "npm" -> <<"ci">>
    [] n = "yarn" -> <<"install", "--immutable">>
    [] n = "bun" -> <<"install", "--frozen-lockfile">>
    [] n = "pnpm" -> <<"install", "--frozen-lockfile">>

installCommandArgs(o, r) ==
  IF Truthy(o.frozenLockFile)
  THEN pmToInstallCommandMap(r.packageManager.name)
  ELSE <<"install">>

names(n) == IF n.isArray THEN n.arr ELSE <<n.str>>

\* Variant: the legacy token is emitted for every yarn major version.
addYarnGlobalTokenAnyVersion(r) ==
  IF Truthy(r.global) THEN "global" ELSE ""

addYarnGlobalToken(r) ==
  IF Truthy(r.global) /\ r.packageManager.majorVersion = "1"
  THEN "global" ELSE ""

addYarnArgs(n, r) ==
  getWorkspaceArgs(r)
    \o <<addYarnGlobalToken(r), "add", IF Truthy(r.dev) THEN "-D" ELSE "">>
    \o names(n)

addOtherArgs(n, r) ==
  <<IF r.packageManager.name = "npm" THEN "install" ELSE "add">>
    \o getWorkspaceArgs(r)
    \o <<IF Truthy(r.dev) THEN "-D" ELSE "",
         IF Truthy(r.global) THEN "-g" ELSE "">>
    \o names(n)

addDependencyArgs(n, r) ==
  filterBoolean(IF r.packageManager.name = "yarn"
                THEN addYarnArgs(n, r) ELSE addOtherArgs(n, r))

removeYarnArgs(n, r) ==
  <<IF Truthy(r.global) /\ r.packageManager.majorVersion = "1"
    THEN "global" ELSE "">>
    \o getWorkspaceArgs(r)
    \o <<"remove",
         IF Truthy(r.dev) THEN "-D" ELSE "",
         IF Truthy(r.global) THEN "-g" ELSE "",
         n.str>>

\* Variant: npm is given the verb of the other managers.
removeOtherArgsNpmRemove(n, r) ==
  <<"remove">>
    \o getWorkspaceArgs(r)
    \o <<IF Truthy(r.dev) THEN "-D" ELSE "",
         IF Truthy(r.global) THEN "-g" ELSE "",
         n.str>>

\* Variant: the -g flag is placed before the -D flag.
removeOtherArgsFlagsSwapped(n, r) ==
  <<IF r.packageManager.name = "npm" THEN "uninstall" ELSE "remove">>
    \o getWorkspaceArgs(r)
    \o <<IF Truthy(r.global) THEN "-g" ELSE "",
         IF Truthy(r.dev) THEN "-D" ELSE "",
         n.str>>

removeOtherArgs(n, r) ==
  <<IF r.packageManager.name = "npm" THEN "uninstall" ELSE "remove">>
    \o getWorkspaceArgs(r)
    \o <<IF Truthy(r.dev) THEN "-D" ELSE "",
         IF Truthy(r.global) THEN "-g" ELSE "",
         n.str>>

removeDependencyArgs(n, r) ==
  filterBoolean(IF r.packageManager.name = "yarn"
                THEN removeYarnArgs(n, r) ELSE removeOtherArgs(n, r))

\* Variant: addDevDependency forwards its options untouched.
addDevOptionsNotForced(o) == o

\* `{ ...options, dev: true }` of addDevDependency.
addDevOptions(o) == [o EXCEPT !.dev = "true"]

\* Variant: ensureDependencyInstalled loses the dev flag on the way.
ensureAddOptionsDropDev(o, r) ==
  [cwd |-> r.cwd, silent |-> r.silent, packageManager |-> r.packageManager,
   dev |-> "undefined", workspace |-> r.workspace, global |-> r.global,
   frozenLockFile |-> "undefined"]

\* Variant: ensureDependencyInstalled hands over its unresolved options.
ensureAddOptionsUnresolved(o, r) == o

\* The options ensureDependencyInstalled hands to addDependency.
ensureAddOptions(o, r) ==
  [cwd |-> r.cwd, silent |-> r.silent, packageManager |-> r.packageManager,
   dev |-> r.dev, workspace |-> r.workspace, global |-> r.global,
   frozenLockFile |-> "undefined"]

\* ------------------------------------------------------------------ state
VARIABLES
  pc,              \* "idle", "resolve", "check", "exec", "done"
  op,              \* the exported function the caller invoked
  fn,              \* the function whose body is running
  callName,        \* arguments of the caller's invocation
  callOptions,
  name,            \* arguments of the running function
  options,
  resolvedOptions, \* resolvedOptions of the running function
  ensureResolved,  \* resolvedOptions of a suspended ensureDependencyInstalled
  existence,       \* answer of the Dependency Existence Checker
  resolutions,     \* Options Resolver invocations of this call, in order
  calls,           \* Command Executor invocations of this call, in order
  result           \* settlement of the promise returned to the caller

vars == <<pc, op, fn, callName, callOptions, name, options, resolvedOptions,
          ensureResolved, existence, resolutions, calls, result>>

Pending == [status |-> "pending", value |-> "undefined"]
Fulfilled(v) == [status |-> "fulfilled", value |-> v]
Rejected(e) == [status |-> "rejected", value |-> e]

Init ==
  /\ pc = "idle"
  /\ op = "none"
  /\ fn = "none"
  /\ callName = NoName
  /\ callOptions = NoOptions
  /\ name = NoName
  /\ options = NoOptions
  /\ resolvedOptions = NoResolved
  /\ ensureResolved = NoResolved
  /\ existence = "unknown"
  /\ resolutions = <<>>
  /\ calls = <<>>
  /\ result = Pending

\* ---------------------------------------------------------------- actions
Enter(o, f, n, opts, fnOpts) ==
  /\ pc' = "resolve"
  /\ op' = o
  /\ fn' = f
  /\ callName' = n
  /\ callOptions' = opts
  /\ name' = n
  /\ options' = fnOpts
  /\ UNCHANGED <<resolvedOptions, ensureResolved, existence, resolutions,
                 calls, result>>

CallInstallDependencies ==
  /\ pc = "idle"
  /\ \E o \in InstallOptions :
       Enter("installDependencies", "installDependencies", NoName, o, o)

CallAddDependency ==
  /\ pc = "idle"
  /\ \E n \in NameArgs, o \in OperationOptions :
       Enter("addDependency", "addDependency", n, o, o)

\* addDevDependency only awaits addDependency(name, {...options, dev: true}).
CallAddDevDependency ==
  /\ pc = "idle"
  /\ \E n \in NameArgs, o \in OperationOptions :
       Enter("addDevDependency", "addDependency", n, o, addDevOptions(o))

CallRemoveDependency ==
  /\ pc = "idle"
  /\ \E s \in DepNames, o \in OperationOptions :
       Enter("removeDependency", "removeDependency", StringName(s), o, o)

CallEnsureDependencyInstalled ==
  /\ pc = "idle"
  /\ \E s \in DepNames, o \in EnsureOptions :
       Enter("ensureDependencyInstalled", "ensureDependencyInstalled",
          StringName(s), o, o)

\* `await resolveOperationOptions(options)` of the running function.
ResolveOk ==
  /\ pc = "resolve"
  /\ \E d \in DetectablePackageManagers :
       LET r == resolveOperationOptions(options, d) IN
       /\ resolvedOptions' = r
       /\ resolutions' = Append(resolutions,
            [input |-> options, detected |-> needsDetection(options),
             output |-> r, error |-> "undefined"])
  /\ pc' = IF fn = "ensureDependencyInstalled" THEN "check" ELSE "exec"
  /\ UNCHANGED <<op, fn, callName, callOptions, name, options,
                 ensureResolved, existence, calls, result>>

\* The Detector finds no package manager and none was supplied.
ResolveDetectionError ==
  /\ pc = "resolve"
  /\ needsDetection(options)
  /\ resolutions' = Append(resolutions,
       [input |-> options, detected |-> TRUE,
        output |-> NoResolved, error |-> "DetectionError"])
  /\ result' = Rejected("DetectionError")
  /\ pc' = "done"
  /\ UNCHANGED <<op, fn, callName, callOptions, name, options,
                 resolvedOptions, ensureResolved, existence, calls>>

\* Variant: a failed subprocess is spawned once more.
ExecuteRetry(args, okValue) ==
  /\ pc = "exec"
  /\ \E outcome \in {"ok"} \cup ExecutionErrors :
       /\ calls' = Append(calls,
            [command |-> resolvedOptions.packageManager.command,
             args |-> args,
             cwd |-> resolvedOptions.cwd,
             silent |-> resolvedOptions.silent,
             outcome |-> outcome])
       /\ result' = IF outcome = "ok" THEN Fulfilled(okValue)
                    ELSE IF Len(calls) = 0 THEN result ELSE Rejected(outcome)
       /\ pc' = IF outcome # "ok" /\ Len(calls) = 0 THEN "exec" ELSE "done"
  /\ UNCHANGED <<op, fn, callName, callOptions, name, options,
                 resolvedOptions, ensureResolved, existence, resolutions>>

\* Variant: a failed subprocess is swallowed.
ExecuteSwallow(args, okValue) ==
  /\ pc = "exec"
  /\ \E outcome \in {"ok"} \cup ExecutionErrors :
       /\ calls' = Append(calls,
            [command |-> resolvedOptions.packageManager.command,
             args |-> args,
             cwd |-> resolvedOptions.cwd,
             silent |-> resolvedOptions.silent,
             outcome |-> outcome])
       /\ result' = Fulfilled(okValue)
  /\ pc' = "done"
  /\ UNCHANGED <<op, fn, callName, callOptions, name, options,
                 resolvedOptions, ensureResolved, existence, resolutions>>

\* `await executeCommand(command, args, {cwd, silent})`: one subprocess,
\* which exits with code 0 or fails.
Execute(args, okValue) ==
  /\ pc = "exec"
  /\ \E outcome \in {"ok"} \cup ExecutionErrors :
       /\ calls' = Append(calls,
            [command |-> resolvedOptions.packageManager.command,
             args |-> args,
             cwd |-> resolvedOptions.cwd,
             silent |-> resolvedOptions.silent,
             outcome |-> outcome])
       /\ result' = IF outcome = "ok" THEN Fulfilled(okValue)
                    ELSE Rejected(outcome)
  /\ pc' = "done"
  /\ UNCHANGED <<op, fn, callName, callOptions, name, options,
                 resolvedOptions, ensureResolved, existence, resolutions>>

InstallExecute ==
  /\ fn = "installDependencies"
  /\ Execute(installCommandArgs(options, resolvedOptions), "undefined")

AddExecute ==
  /\ fn = "addDependency"
  /\ Execute(addDependencyArgs(name, resolvedOptions), "undefined")

RemoveExecute ==
  /\ fn = "removeDependency"
  /\ Execute(removeDependencyArgs(name, resolvedOptions), "undefined")

\* doesDependencyExist(name, resolvedOptions) answers true: return true.
EnsurePresent ==
  /\ pc = "check"
  /\ fn = "ensureDependencyInstalled"
  /\ existence' = "present"
  /\ result' = Fulfilled("true")
  /\ pc' = "done"
  /\ UNCHANGED <<op, fn, callName, callOptions, name, options,
                 resolvedOptions, ensureResolved, resolutions, calls>>

\* doesDependencyExist answers false: await addDependency(name, resolvedOptions).
EnsureAbsent ==
  /\ pc = "check"
  /\ fn = "ensureDependencyInstalled"
  /\ existence' = "absent"
  /\ ensureResolved' = resolvedOptions
  /\ fn' = "addDependency"
  /\ options' = ensureAddOptions(options, resolvedOptions)
  /\ resolvedOptions' = NoResolved
  /\ pc' = "resolve"
  /\ UNCHANGED <<op, callName, callOptions, name, resolutions, calls, result>>

\* The caller observes the settled promise; the next call starts afresh.
Return ==
  /\ pc = "done"
  /\ pc' = "idle"
  /\ op' = "none"
  /\ fn' = "none"
  /\ callName' = NoName
  /\ callOptions' = NoOptions
  /\ name' = NoName
  /\ options' = NoOptions
  /\ resolvedOptions' = NoResolved
  /\ ensureResolved' = NoResolved
  /\ existence' = "unknown"
  /\ resolutions' = <<>>
  /\ calls' = <<>>
  /\ result' = Pending

Next ==
  \/ CallInstallDependencies
  \/ CallAddDependency
  \/ CallAddDevDependency
  \/ CallRemoveDependency
  \/ CallEnsureDependencyInstalled
  \/ ResolveOk
  \/ ResolveDetectionError
  \/ InstallExecute
  \/ AddExecute
  \/ RemoveExecute
  \/ EnsurePresent
  \/ EnsureAbsent
  \/ Return

Spec == Init /\ [][Next]_vars

\* ------------------------------------------------------------- properties
Executed == Len(calls) >= 1
Has(seq, tok) == \E i \in 1..Len(seq) : seq[i] = tok
\* The package manager the finished resolution of the running function chose.
pmName == resolvedOptions.packageManager.name
OneName == Len(names(name)) = 1 /\ names(name)[1] # ""
TheName == names(name)[1]

\* C1: installDependencies with frozenLockFile true hands the executor the
\* frozen-install argument list of the manager (npm: ci; yarn: install
\* --immutable; pnpm, bun: install --frozen-lockfile); with frozenLockFile
\* false or absent it hands it exactly [install], whatever the manager.
C1_FrozenInstallArgs ==
  (fn = "installDependencies" /\ Executed) =>
    IF callOptions.frozenLockFile = "true"
    THEN /\ pmName = "npm" => calls[1].args = <<"ci">>
         /\ pmName = "yarn" => calls[1].args = <<"install", "--immutable">>
         /\ pmName \in {"pnpm", "bun"} =>
              calls[1].args = <<"install", "--frozen-lockfile">>
    ELSE calls[1].args = <<"install">>

C1_Witness ==
  /\ op = "installDependencies"
  /\ callOptions.frozenLockFile = "true"
  /\ pmName = "pnpm"
  /\ Executed
  /\ calls[1].args = <<"install", "--frozen-lockfile">>

\* C2: addDependency on yarn: with global true and major version "1" a
\* `global` token stands before `add`; for any other major version, and
\* whenever global is not true, the argument list has no `global` token.
C2_YarnGlobalToken ==
  (fn = "addDependency" /\ Executed /\ pmName = "yarn") =>
    IF options.global = "true"
         /\ resolvedOptions.packageManager.majorVersion = "1"
    THEN \E i, j \in 1..Len(calls[1].args) :
           /\ i < j
           /\ calls[1].args[i] = "global"
           /\ calls[1].args[j] = "add"
    ELSE ~Has(calls[1].args, "global")

C2_Witness ==
  /\ op = "addDependency"
  /\ Executed
  /\ pmName = "yarn"
  /\ callOptions.global = "true"
  /\ resolvedOptions.packageManager.majorVersion = "2"
  /\ ~Has(calls[1].args, "global")

\* C3: on npm, pnpm and bun, adding one non-empty name with the dev flag set
\* and neither global nor workspace set, through addDependency with dev true
\* or through addDevDependency whatever dev it was given, runs the manager's
\* command with exactly [install, -D, name] (npm) or [add, -D, name].
C3_DevCase ==
  /\ \/ op = "addDependency" /\ callOptions.dev = "true"
     \/ op = "addDevDependency"
  /\ ~Truthy(callOptions.global)
  /\ callOptions.workspace = "undefined"
  /\ pmName \in {"npm", "pnpm", "bun"}
  /\ OneName
  /\ Executed

C3_DevAddArgs ==
  C3_DevCase =>
    /\ calls[1].args =
         <<IF pmName = "npm" THEN "install" ELSE "add", "-D", TheName>>
    /\ calls[1].command = resolutions[1].output.packageManager.command
    /\ ~needsDetection(callOptions) =>
         calls[1].command = callOptions.packageManager.command

C3_Witness ==
  /\ C3_DevCase
  /\ op = "addDevDependency"
  /\ callOptions.dev = "false"
  /\ pmName = "pnpm"
  /\ calls[1].command = "pnpm"
  /\ calls[1].args = <<"add", "-D", "foo">>

\* C4: removeDependency of a non-empty name with no dev, global or workspace
\* option hands the executor exactly [uninstall, name] on npm and exactly
\* [remove, name] on yarn (any major version), pnpm and bun.
C4_PlainCase ==
  /\ op = "removeDependency"
  /\ callOptions.dev = "undefined"
  /\ callOptions.global = "undefined"
  /\ callOptions.workspace = "undefined"
  /\ OneName
  /\ Executed

C4_PlainRemoveArgs ==
  C4_PlainCase =>
    calls[1].args =
      <<IF pmName = "npm" THEN "uninstall" ELSE "remove", TheName>>

C4_Witness ==
  /\ C4_PlainCase
  /\ pmName = "npm"
  /\ calls[1].args = <<"uninstall", "foo">>

\* C5: ensureDependencyInstalled: when the dependency is reported present
\* the call returns true and the executor is never invoked; when it is
\* reported absent addDependency is entered once, with the same name and
\* the resolved options, and the executed command uses the package manager,
\* cwd, dev flag and workspace that ensureDependencyInstalled resolved.
C5_EnsureDelegation ==
  op = "ensureDependencyInstalled" =>
    /\ existence = "present" =>
         /\ result = Fulfilled("true")
         /\ calls = <<>>
    /\ existence = "unknown" => calls = <<>>
    /\ existence = "absent" =>
         /\ fn = "addDependency"
         /\ name = callName
         /\ Len(resolutions) \in {1, 2}
         /\ options.packageManager = ensureResolved.packageManager
         /\ options.cwd = ensureResolved.cwd
         /\ options.dev = callOptions.dev
         /\ options.workspace = callOptions.workspace
         /\ pc = "done" => Len(calls) = 1 /\ Len(resolutions) = 2
         /\ Executed =>
              /\ calls[1].command = ensureResolved.packageManager.command
              /\ calls[1].cwd = ensureResolved.cwd
              /\ Has(calls[1].args, "-D") <=> callOptions.dev = "true"
              /\ resolvedOptions = ensureResolved
              /\ callOptions.workspace = "undefined" =>
                   ~Has(calls[1].args, "app")
              /\ names(callName)[1] # "" =>
                   calls[1].args[Len(calls[1].args)] = names(callName)[1]

C5_Witness ==
  /\ op = "ensureDependencyInstalled"
  /\ existence = "absent"
  /\ callOptions.dev = "true"
  /\ callOptions.workspace = "app"
  /\ callOptions.cwd = "/proj"
  /\ Executed
  /\ calls[1].command = "npm"
  /\ calls[1].cwd = "/proj"
  /\ Has(calls[1].args, "-D")
  /\ calls[1].args[Len(calls[1].args)] = "foo"

C5_WitnessPresent ==
  /\ op = "ensureDependencyInstalled"
  /\ existence = "present"
  /\ pc = "done"

\* C6: every call resolves its options before it invokes the executor, a
\* call of install, add, addDev or remove whose resolution succeeded invokes
\* it exactly once, and no call (ensureDependencyInstalled included) invokes
\* it a second time, whether the invocation succeeded or failed.
C6_SingleInvocation ==
  /\ Len(calls) <= 1
  /\ Executed =>
       /\ Len(resolutions) >= 1
       /\ resolutions[Len(resolutions)].error = "undefined"
  /\ (pc = "done" /\ op # "ensureDependencyInstalled"
        /\ result # Rejected("DetectionError")) => Len(calls) = 1

C6_Witness ==
  /\ op = "removeDependency"
  /\ pc = "done"
  /\ Len(calls) = 1
  /\ calls[1].outcome = "ExecutionError(1)"

\* C6, as steps: the executor's log only ever grows by one invocation, made
\* from a resolved state, and the step that makes it ends the call.
C6_NoRetry ==
  [][calls' # calls =>
       \/ calls' = <<>>
       \/ /\ calls = <<>>
          /\ Len(calls') = 1
          /\ pc = "exec"
          /\ pc' = "done"
          /\ resolutions' = resolutions]_vars

\* C7: a DetectionError of the resolver fails the operation with that error
\* and the executor is not invoked; an ExecutionError of the executor fails
\* the operation with that same error; no operation is fulfilled after
\* either failure.
DetectionFailed ==
  \E i \in 1..Len(resolutions) : resolutions[i].error = "DetectionError"
ExecutionFailed ==
  \E i \in 1..Len(calls) : calls[i].outcome # "ok"

C7_ErrorsPropagate ==
  /\ DetectionFailed =>
       /\ result = Rejected("DetectionError")
       /\ calls = <<>>
       /\ pc = "done"
  /\ ExecutionFailed =>
       /\ result = Rejected(calls[1].outcome)
       /\ calls[1].outcome \in ExecutionErrors
       /\ pc = "done"
  /\ result.status = "fulfilled" => ~DetectionFailed /\ ~ExecutionFailed

C7_Witness ==
  /\ op = "ensureDependencyInstalled"
  /\ ExecutionFailed
  /\ result = Rejected("ExecutionError(127)")

C7_WitnessDetection ==
  /\ op = "addDevDependency"
  /\ DetectionFailed
  /\ result = Rejected("DetectionError")

FlagTokens ==
  {"install", "add", "global", "-D", "-g", "-w", "-F", "workspace"}
    \cup (Workspaces \ {"undefined"})

NamesAreSuffix(args, ns) ==
  /\ Len(args) >= Len(ns)
  /\ \A i \in 1..Len(ns) : args[Len(args) - Len(ns) + i] = ns[i]

C9_AllNamesKept ==
  (fn = "addDependency" /\ Executed) =>
    /\ NamesAreSuffix(calls[1].args, names(name))
    /\ ~Has(calls[1].args, "")

\* C9 (amended): for every input of addDependency whose names are all
\* non-empty, the names are the last elements of the argument list, in the
\* order given, after nothing but verb, workspace-selector and flag tokens;
\* for every input whatever, the argument list holds no empty string.
AllNonEmpty(ns) == \A i \in 1..Len(ns) : ns[i] # ""

C9_NonEmptyNamesKept ==
  (fn = "addDependency" /\ Executed) =>
    /\ ~Has(calls[1].args, "")
    /\ AllNonEmpty(names(name)) =>
         /\ NamesAreSuffix(calls[1].args, names(name))
         /\ \A i \in 1..(Len(calls[1].args) - Len(names(name))) :
              calls[1].args[i] \in FlagTokens

C9_Witness ==
  /\ op = "addDependency"
  /\ Executed
  /\ name = ArrayName(<<"bar", "foo">>)
  /\ pmName = "yarn"
  /\ callOptions.dev = "true"
  /\ callOptions.workspace = "app"
  /\ Len(calls[1].args) >= 5
  /\ calls[1].args[Len(calls[1].args) - 1] = "bar"
  /\ calls[1].args[Len(calls[1].args)] = "foo"

\* C10 (as stated): for every manager, every combination of dev, global and
\* workspace and every single non-empty name, the arguments of
\* removeDependency are those of addDependency for the same inputs with only
\* the verb replaced (install -> uninstall on npm, add -> remove otherwise).
SameButVerb(addArgs, removeArgs, addVerb, removeVerb) ==
  /\ Len(addArgs) = Len(removeArgs)
  /\ \E k \in 1..Len(addArgs) :
       /\ addArgs[k] = addVerb
       /\ removeArgs[k] = removeVerb
       /\ \A i \in 1..Len(addArgs) : i # k => addArgs[i] = removeArgs[i]

RemoveMirrorsAdd ==
  SameButVerb(addDependencyArgs(name, resolvedOptions), calls[1].args,
              IF pmName = "npm" THEN "install" ELSE "add",
              IF pmName = "npm" THEN "uninstall" ELSE "remove")

C10_RemoveSymmetric ==
  (fn = "removeDependency" /\ Executed /\ OneName) => RemoveMirrorsAdd

\* C10 (amended): the arguments of removeDependency are those of
\* addDependency with only the verb replaced on npm, pnpm and bun for every
\* combination of the options, and on yarn whenever global is not set; on
\* yarn with global set they are never so (removeDependency then also
\* emits -g, for every major version).
C10_RemoveSymmetricUnlessYarnGlobal ==
  (fn = "removeDependency" /\ Executed /\ OneName) =>
    IF pmName = "yarn" /\ Truthy(callOptions.global)
    THEN /\ ~RemoveMirrorsAdd
         /\ Has(calls[1].args, "-g")
    ELSE RemoveMirrorsAdd

C10_Witness ==
  /\ op = "removeDependency"
  /\ Executed
  /\ pmName = "pnpm"
  /\ callOptions.dev = "true"
  /\ callOptions.global = "true"
  /\ callOptions.workspace = "app"
  /\ calls[1].args[1] = "remove"
  /\ calls[1].args[Len(calls[1].args)] = "foo"
  /\ Len(calls[1].args) >= 4

====
